---------------------------- MODULE Spec2Model ----------------------------
(***************************************************************************)
(* Model of can_bridge.cpp: the CAN monitor for three interfaces (canfd1,  *)
(* canfd2, canfd3).  main() configures the interfaces, opens one raw       *)
(* socket per interface, then loops on select() until the signal handler   *)
(* clears `running`; every frame read is printed and, for two known        *)
(* identifiers, decoded (keypad buttons, J1939 TSC1).                      *)
(*                                                                         *)
(* A 32-bit can_id is kept as two 16-bit halves [hi, lo] because TLC's     *)
(* integers are 32-bit signed and the EFF flag is bit 31.                  *)
(***************************************************************************)
EXTENDS Integers, Sequences, FiniteSets, TLC

VARIABLES
    pc,             \* position of main(): see PcValues
    running,        \* volatile sig_atomic_t running (1 = keep looping)
    exitCode,       \* value returned by main(); meaningful when pc = "exit"
    calls,          \* restart_can_interface calls made so far, in order
    lastCfg,        \* outcome of the three system() commands of the latest call
    socks,          \* return values of the setup_can_socket calls, in order
    openFds,        \* descriptors currently open in the process
    created,        \* per interface: sockets created by socket()
    closes,         \* per interface: close() calls made on its socket
    readFds,        \* fd_set read_fds, as the set of interfaces whose bit is set
    sel,            \* result of the latest select(): [ret, errno]
    frame,          \* struct can_frame of the latest read_and_print_frame call
    lastRead,       \* outcome of the latest read_and_print_frame call
    report,         \* decoder output (stdout) of the latest read_and_print_frame call
    buttonStates,   \* static bool buttonStates[8]
    buttonChanged,  \* static bool buttonChanged[8]
    waitsAfterStop, \* observer: select() calls begun while running = 0
    warned,         \* observer: a "Warning: Failed to configure ... bitrate" was printed
    reads,          \* observer: interfaces read since the latest select() returned
    readsAfterStop, \* observer: per interface, reads made while running = 0
    sent            \* observer: <<from, to>> of every frame written to a socket

vars == <<pc, running, exitCode, calls, lastCfg, socks, openFds, created, closes,
          readFds, sel, frame, lastRead, report, buttonStates, buttonChanged,
          waitsAfterStop, warned, reads, readsAfterStop, sent>>

startupVars == <<calls, lastCfg, socks, openFds, created, closes>>
readVars == <<frame, lastRead, report, buttonStates, buttonChanged>>

(***************************************************************************)
(* Bounds of the input alphabets.                                          *)
(***************************************************************************)
NumKeypadBytes == 2
NumTscBytes == 2

(***************************************************************************)
(* Program constants.                                                      *)
(***************************************************************************)
NumButtons == 8
NumIfaces == 3
SizeofCanFrame == 16
FirstFd == 3

Ifaces == 1..NumIfaces
Buttons == 0..(NumButtons - 1)

InterfaceName(i) == <<"canfd1", "canfd2", "canfd3">>[i]
Bitrate(i) == <<250000, 500000, 500000>>[i]

(***************************************************************************)
(* C integer operators on non-negative values.                             *)
(***************************************************************************)
RECURSIVE BitAnd(_, _)
BitAnd(a, b) ==
    IF a = 0 \/ b = 0 THEN 0
    ELSE (a % 2) * (b % 2) + 2 * BitAnd(a \div 2, b \div 2)

RECURSIVE BitOr(_, _)
BitOr(a, b) ==
    IF a = 0 THEN b
    ELSE IF b = 0 THEN a
    ELSE (IF (a % 2) + (b % 2) > 0 THEN 1 ELSE 0) + 2 * BitOr(a \div 2, b \div 2)

Shl(x, n) == x * (2 ^ n)
Shr(x, n) == x \div (2 ^ n)
U8(x) == x % 256
U16(x) == x % 65536

\* 32-bit identifiers as halves.
Id32(hi, lo) == [hi |-> hi, lo |-> lo]
And32(a, b) == Id32(BitAnd(a.hi, b.hi), BitAnd(a.lo, b.lo))

CAN_EFF_MASK == Id32(8191, 65535)      \* 0x1FFFFFFF
CAN_EFF_FLAG == Id32(32768, 0)         \* 0x80000000
CAN_ID_KEYPAD == Id32(6399, 640)       \* 0x18FF0280
CAN_ID_TSC1 == Id32(3072, 3)           \* 0x0C000003

\* data[k] of the C array (0-based) in the 8-byte payload.
Byte(data, k) == data[k + 1]


(***************************************************************************)
(* Frames and read() results.                                              *)
(***************************************************************************)
Frame(id, dlc, data) == [can_id |-> id, can_dlc |-> dlc, data |-> data]
ZeroData == <<0, 0, 0, 0, 0, 0, 0, 0>>
\* Content of the local `frame` when read() delivered no complete frame.
NoFrame == Frame(Id32(0, 0), 0, ZeroData)

\* What read(src_sock, &frame, sizeof(struct can_frame)) can deliver.
ReadOk(f) == [nbytes |-> SizeofCanFrame, errno |-> "", frame |-> f]
ReadErr(e) == [nbytes |-> -1, errno |-> e, frame |-> NoFrame]
ReadShort(n) == [nbytes |-> n, errno |-> "", frame |-> NoFrame]

NoRead == [sock |-> 0, nbytes |-> 0, errno |-> "", ret |-> 0, msg |-> ""]
NoReport ==
    [kind |-> "none", rx |-> <<>>, pressed |-> <<>>,
     ctrl |-> 0, speed |-> 0, torque |-> 0, priority |-> 0]

AllFalse == [b \in Buttons |-> FALSE]

(***************************************************************************)
(* decodeKeypadButtons                                                     *)
(***************************************************************************)
ButtonData(data) == U16(BitOr(Shl(Byte(data, 1), 8), Byte(data, 0)))
ButtonBits(buttonData, i) == U8(BitAnd(Shr(buttonData, i * 2), 3))

ButtonPressedLowBit(buttonData, i) == BitAnd(ButtonBits(buttonData, i), 1) = 1
ButtonPressed(buttonData, i) == ButtonBits(buttonData, i) = 1

ChangedFlagIsState(newState, previousState) == newState
ChangedFlag(newState, previousState) == newState # previousState

\* The for loop over i = 0..7: bank is [states, changed, pressed], where
\* pressed lists what the loop has printed, <<i, starred>> per pressed button.
RECURSIVE KeypadLoopPrintsChanged(_, _, _)
KeypadLoopPrintsChanged(i, buttonData, bank) ==
    IF i >= NumButtons THEN bank
    ELSE LET previousState == bank.states[i]
             newState == ButtonPressed(buttonData, i)
             changed == ChangedFlag(newState, previousState)
         IN KeypadLoopPrintsChanged(i + 1, buttonData,
                [states |-> [bank.states EXCEPT ![i] = newState],
                 changed |-> [bank.changed EXCEPT ![i] = changed],
                 pressed |-> IF newState \/ changed
                             THEN Append(bank.pressed, <<i, changed>>)
                             ELSE bank.pressed])

RECURSIVE KeypadLoop(_, _, _)
KeypadLoop(i, buttonData, bank) ==
    IF i >= NumButtons THEN bank
    ELSE LET previousState == bank.states[i]
             newState == ButtonPressed(buttonData, i)
             changed == ChangedFlag(newState, previousState)
         IN KeypadLoop(i + 1, buttonData,
                [states |-> [bank.states EXCEPT ![i] = newState],
                 changed |-> [bank.changed EXCEPT ![i] = changed],
                 pressed |-> IF newState
                             THEN Append(bank.pressed, <<i, changed>>)
                             ELSE bank.pressed])

decodeKeypadButtons(data, states, changed) ==
    KeypadLoop(0, ButtonData(data),
               [states |-> states, changed |-> changed, pressed |-> <<>>])

(***************************************************************************)
(* decodeTSC1.  speed is rawSpeed, the requested speed in units of 0.125   *)
(* RPM (rawSpeed * 0.125 is exact in a float for a 16-bit rawSpeed).       *)
(***************************************************************************)
S16(x) == ((x + 32768) % 65536) - 32768
S8(x) == ((x + 128) % 256) - 128

decodeTSC1TorqueInt8(data) ==
    [ctrl |-> U8(Byte(data, 0)),
     speed |-> U16(BitOr(Shl(Byte(data, 2), 8), Byte(data, 1))),
     torque |-> S8(U8(Byte(data, 3)) - 125),
     priority |-> U8(BitAnd(Byte(data, 4), 3))]
decodeTSC1(data) ==
    [ctrl |-> U8(Byte(data, 0)),
     speed |-> U16(BitOr(Shl(Byte(data, 2), 8), Byte(data, 1))),
     torque |-> S16(U8(Byte(data, 3)) - 125),
     priority |-> U8(BitAnd(Byte(data, 4), 3))]

(***************************************************************************)
(* read_and_print_frame                                                    *)
(***************************************************************************)
MaskedId(f) == And32(f.can_id, CAN_EFF_MASK)

DecoderNoLengthGuard(f) ==
    IF MaskedId(f) = CAN_ID_KEYPAD THEN "keypad"
    ELSE IF MaskedId(f) = CAN_ID_TSC1 /\ f.can_dlc >= 4 THEN "tsc1"
    ELSE "none"
\* Which decoder the if / else-if chain runs for a received frame.
Decoder(f) ==
    IF MaskedId(f) = CAN_ID_KEYPAD /\ f.can_dlc >= 2 THEN "keypad"
    ELSE IF MaskedId(f) = CAN_ID_TSC1 /\ f.can_dlc >= 4 THEN "tsc1"
    ELSE "none"

\* The "[RX name] ID=... DLC=... Data: ..." line.
RxLine(i, f) ==
    <<InterfaceName(i), MaskedId(f), f.can_dlc,
      SubSeq(f.data, 1, IF f.can_dlc <= 8 THEN f.can_dlc ELSE 8)>>

\* if (nbytes < sizeof(struct can_frame))
IncompleteNever(nbytes) == FALSE
Incomplete(nbytes) == nbytes < SizeofCanFrame

ReadAndPrintFrame(i, r) ==
    IF r.nbytes < 0 THEN
        /\ lastRead' = [sock |-> i, nbytes |-> r.nbytes, errno |-> r.errno, ret |-> -1,
                        msg |-> IF r.errno # "EAGAIN" /\ r.errno # "EWOULDBLOCK"
                                THEN "Error reading from CAN" ELSE ""]
        /\ frame' = NoFrame
        /\ report' = NoReport
        /\ UNCHANGED <<buttonStates, buttonChanged>>
    ELSE IF Incomplete(r.nbytes) THEN
        /\ lastRead' = [sock |-> i, nbytes |-> r.nbytes, errno |-> "", ret |-> -1,
                        msg |-> "Incomplete CAN frame received"]
        /\ frame' = NoFrame
        /\ report' = NoReport
        /\ UNCHANGED <<buttonStates, buttonChanged>>
    ELSE
        LET decoder == Decoder(r.frame)
            rx == RxLine(i, r.frame)
        IN
        /\ lastRead' = [sock |-> i, nbytes |-> r.nbytes, errno |-> "", ret |-> 0, msg |-> ""]
        /\ frame' = r.frame
        /\ IF decoder = "keypad" THEN
               LET bank == decodeKeypadButtons(r.frame.data, buttonStates, buttonChanged)
               IN /\ buttonStates' = bank.states
                  /\ buttonChanged' = bank.changed
                  /\ report' = [NoReport EXCEPT !.kind = "keypad", !.rx = rx,
                                                !.pressed = bank.pressed]
           ELSE IF decoder = "tsc1" THEN
               LET t == decodeTSC1(r.frame.data)
               IN /\ report' = [NoReport EXCEPT !.kind = "tsc1", !.rx = rx,
                                                !.ctrl = t.ctrl, !.speed = t.speed,
                                                !.torque = t.torque,
                                                !.priority = t.priority]
                  /\ UNCHANGED <<buttonStates, buttonChanged>>
           ELSE
               /\ report' = [NoReport EXCEPT !.rx = rx]
               /\ UNCHANGED <<buttonStates, buttonChanged>>

(***************************************************************************)
(* restart_can_interface: three system() commands (down, bitrate, up),     *)
(* each of which the environment lets succeed or fail.                     *)
(***************************************************************************)
\* cmds lists the commands handed to system(), warning tells whether the
\* bitrate warning was printed.
NoCfg ==
    [iface |-> 0, rate |-> 0, down |-> FALSE, bitrate |-> FALSE, up |-> FALSE,
     cmds |-> <<>>, warning |-> FALSE, ret |-> 0]

restart_can_interface_BitrateFatal(i, down, bitrate, up) ==
    [iface |-> i, rate |-> Bitrate(i), down |-> down, bitrate |-> bitrate, up |-> up,
     cmds |-> IF bitrate THEN <<"down", "bitrate", "up">> ELSE <<"down", "bitrate">>,
     warning |-> ~bitrate,
     ret |-> IF ~bitrate \/ ~up THEN -1 ELSE 0]
restart_can_interface(i, down, bitrate, up) ==
    [iface |-> i, rate |-> Bitrate(i), down |-> down, bitrate |-> bitrate, up |-> up,
     cmds |-> <<"down", "bitrate", "up">>,
     warning |-> ~bitrate,
     ret |-> IF ~up THEN -1 ELSE 0]

\* The || chain of main(): stop at the first call that returns < 0.
ConfigureFailedNever(ret) == FALSE
ConfigureFailed(ret) == ret < 0

Configure ==
    /\ pc = "configure"
    /\ Len(calls) < NumIfaces
    /\ \E down \in BOOLEAN, bitrate \in BOOLEAN, up \in BOOLEAN :
         LET i == Len(calls) + 1
             c == restart_can_interface(i, down, bitrate, up)
         IN /\ lastCfg' = c
            /\ warned' = (warned \/ c.warning)
            /\ calls' = Append(calls, [iface |-> i, ret |-> c.ret])
            /\ IF ConfigureFailed(c.ret)
               THEN pc' = "exit" /\ exitCode' = 1
               ELSE /\ pc' = IF i = NumIfaces THEN "open" ELSE "configure"
                    /\ UNCHANGED exitCode
    /\ UNCHANGED <<reads, readsAfterStop, sent,
                   running, socks, openFds, created, closes, readFds, sel,
                   frame, lastRead, report, buttonStates, buttonChanged,
                   waitsAfterStop>>

(***************************************************************************)
(* setup_can_socket: socket(), ioctl(SIOCGIFINDEX), bind(); `step` names   *)
(* the call that fails, "ok" when none does.                               *)
(***************************************************************************)
SetupOutcomes == {"ok", "socket", "ioctl", "bind"}

\* socket() returns the lowest descriptor not in use.
LowestFree(fds) ==
    CHOOSE n \in FirstFd..(FirstFd + NumIfaces) :
        /\ n \notin fds
        /\ \A m \in FirstFd..(FirstFd + NumIfaces) : m \notin fds => n <= m

setup_can_socket(i, step, fds) ==
    LET sock == LowestFree(fds)
    IN IF step = "socket" THEN
           [ret |-> -1, fds |-> fds, created |-> 0, closed |-> 0]
       ELSE IF step \in {"ioctl", "bind"} THEN
           [ret |-> -1, fds |-> fds, created |-> 1, closed |-> 1]
       ELSE
           [ret |-> sock, fds |-> fds \cup {sock}, created |-> 1, closed |-> 0]

SetupSocket ==
    /\ pc = "open"
    /\ Len(socks) < NumIfaces
    /\ \E step \in SetupOutcomes :
         LET i == Len(socks) + 1
             s == setup_can_socket(i, step, openFds)
         IN /\ socks' = Append(socks, s.ret)
            /\ openFds' = s.fds
            /\ created' = [created EXCEPT ![i] = @ + s.created]
            /\ closes' = [closes EXCEPT ![i] = @ + s.closed]
            /\ pc' = IF i = NumIfaces THEN "check" ELSE "open"
    /\ UNCHANGED <<warned, reads, readsAfterStop, sent,
                   running, exitCode, calls, lastCfg, readFds, sel,
                   frame, lastRead, report, buttonStates, buttonChanged,
                   waitsAfterStop>>

\* if (sock_canfd1 < 0 || sock_canfd2 < 0 || sock_canfd3 < 0)
SocketsFailedFirstOnly(s) == s[1] < 0
SocketsFailed(s) == s[1] < 0 \/ s[2] < 0 \/ s[3] < 0

CheckSockets ==
    /\ pc = "check"
    /\ IF SocketsFailed(socks)
       THEN pc' = "exit" /\ exitCode' = 1
       ELSE pc' = "loop" /\ UNCHANGED exitCode
    /\ UNCHANGED <<warned, reads, readsAfterStop, sent,
                   running, calls, lastCfg, socks, openFds, created, closes,
                   readFds, sel, frame, lastRead, report, buttonStates,
                   buttonChanged, waitsAfterStop>>

(***************************************************************************)
(* Input alphabets: what read() delivers.                                  *)
(***************************************************************************)
KeypadEff == Id32(BitOr(CAN_ID_KEYPAD.hi, CAN_EFF_FLAG.hi), CAN_ID_KEYPAD.lo)
Tsc1Eff == Id32(BitOr(CAN_ID_TSC1.hi, CAN_EFF_FLAG.hi), CAN_ID_TSC1.lo)
\* An extended identifier next to the keypad's, and a standard 11-bit one.
OtherEff == Id32(KeypadEff.hi, KeypadEff.lo + 1)
OtherStd == Id32(0, 291)

\* Keypad bytes: 27 = 00 01 10 11 and 228 = 11 10 01 00 carry every group value.
KeypadByteSamples == <<27, 85, 0, 228, 255, 170>>
KeypadBytes == {KeypadByteSamples[k] : k \in 1..NumKeypadBytes}
KeypadPayloads == {<<a, b, 0, 0, 0, 0, 0, 0>> : a \in KeypadBytes, b \in KeypadBytes}

TscByteSamples == <<255, 0, 128, 124, 126, 3>>
TscBytes == {TscByteSamples[k] : k \in 1..NumTscBytes}
TscExample == <<16, 64, 1, 125, 2, 0, 0, 0>>
TscPayloads ==
    {TscExample}
      \cup {<<b, b, b, b, b, 0, 0, 0>> : b \in TscBytes}
      \cup {[TscExample EXCEPT ![j] = b] : j \in 1..5, b \in TscBytes}

ReadFailures == {ReadErr("EAGAIN"), ReadErr("EIO"), ReadShort(8)}

\* Frames of the decoder specification.
DecodeFrames ==
    {Frame(KeypadEff, d, p) : d \in {1, 2}, p \in KeypadPayloads}
      \cup {Frame(Tsc1Eff, d, p) : d \in {3, 4, 5}, p \in TscPayloads}
      \cup {Frame(OtherEff, 8, TscExample), Frame(OtherStd, 2, TscExample)}
DecodeResults == ReadFailures \cup {ReadOk(f) : f \in DecodeFrames}

\* Frames of the whole-program specification: one per branch of the dispatch.
LifeFrames ==
    {Frame(KeypadEff, 8, <<27, 85, 0, 0, 0, 0, 0, 0>>),
     Frame(KeypadEff, 1, <<27, 85, 0, 0, 0, 0, 0, 0>>),
     Frame(Tsc1Eff, 8, TscExample),
     Frame(Tsc1Eff, 4, TscExample),
     Frame(OtherEff, 8, TscExample)}
LifeResults == ReadFailures \cup {ReadOk(f) : f \in LifeFrames}

(***************************************************************************)
(* main(): the select loop.                                                *)
(***************************************************************************)
RunningPcs == {"loop", "select", "service1", "service2", "service3"}
ServicePc(i) == <<"service1", "service2", "service3">>[i]

\* while (running)
LoopContinuesAlways(r) == TRUE
LoopContinues(r) == r # 0

LoopCheck ==
    /\ pc = "loop"
    /\ IF LoopContinues(running)
       THEN pc' = "select" /\ readFds' = Ifaces     \* FD_ZERO, FD_SET x 3
       ELSE pc' = "cleanup" /\ UNCHANGED readFds
    /\ UNCHANGED <<warned, reads, readsAfterStop, sent,
                   running, exitCode, calls, lastCfg, socks, openFds, created,
                   closes, sel, frame, lastRead, report, buttonStates,
                   buttonChanged, waitsAfterStop>>

\* max_fd over the three sockets.
MaxFd(s) ==
    LET m1 == s[1]
        m2 == IF s[2] > m1 THEN s[2] ELSE m1
    IN IF s[3] > m2 THEN s[3] ELSE m2

\* Interfaces select(max_fd + 1, &read_fds, ...) can report ready.
Watched(s, fds) == {i \in fds : s[i] >= 0 /\ s[i] < MaxFd(s) + 1}

CountWait == IF running = 0 /\ waitsAfterStop < 2 THEN waitsAfterStop + 1 ELSE waitsAfterStop

SelectReady ==
    /\ pc = "select"
    /\ \E S \in (SUBSET Watched(socks, readFds)) \ {{}} :
         /\ readFds' = S
         /\ sel' = [ret |-> Cardinality(S), errno |-> ""]
    /\ pc' = "service1"
    /\ waitsAfterStop' = CountWait
    /\ reads' = <<>>
    /\ UNCHANGED <<warned, readsAfterStop, sent,
                   running, exitCode, calls, lastCfg, socks, openFds, created,
                   closes, frame, lastRead, report, buttonStates, buttonChanged>>

\* ret == 0: the 1 s timeout expired.
SelectTimeout ==
    /\ pc = "select"
    /\ readFds' = {}
    /\ sel' = [ret |-> 0, errno |-> ""]
    /\ pc' = "loop"
    /\ waitsAfterStop' = CountWait
    /\ reads' = <<>>
    /\ UNCHANGED <<warned, readsAfterStop, sent,
                   running, exitCode, calls, lastCfg, socks, openFds, created,
                   closes, frame, lastRead, report, buttonStates, buttonChanged>>

\* SIGINT/SIGTERM is delivered during the wait: signal_handler runs, select
\* returns -1 with errno EINTR, and the loop continues.
SelectInterrupted ==
    /\ pc = "select"
    /\ running' = 0
    /\ sel' = [ret |-> -1, errno |-> "EINTR"]
    /\ pc' = "loop"
    /\ waitsAfterStop' = CountWait
    /\ reads' = <<>>
    /\ UNCHANGED <<warned, readsAfterStop, sent,
                   exitCode, calls, lastCfg, socks, openFds, created, closes,
                   readFds, frame, lastRead, report, buttonStates, buttonChanged>>

\* ret < 0 with another errno: perror("select error"); break.
SelectErrnos == {"ENOMEM"}
SelectError ==
    /\ pc = "select"
    /\ \E e \in SelectErrnos : sel' = [ret |-> -1, errno |-> e]
    /\ pc' = "cleanup"
    /\ waitsAfterStop' = CountWait
    /\ reads' = <<>>
    /\ UNCHANGED <<warned, readsAfterStop, sent,
                   running, exitCode, calls, lastCfg, socks, openFds, created,
                   closes, readFds, frame, lastRead, report, buttonStates,
                   buttonChanged>>

\* Where main() goes after the FD_ISSET block of interface i; the return
\* value of read_and_print_frame is discarded.
AfterServiceBreakOnError(i, ret) ==
    IF ret < 0 THEN "cleanup"
    ELSE IF i < NumIfaces THEN ServicePc(i + 1) ELSE "loop"
AfterServiceSkipsLoopTest(i, ret) ==
    IF i < NumIfaces THEN ServicePc(i + 1) ELSE "select"
AfterService(i, ret) == IF i < NumIfaces THEN ServicePc(i + 1) ELSE "loop"

\* FD_ISSET(sock, &read_fds)
IsSetAlways(i, fds) == TRUE
IsSet(i, fds) == i \in fds

\* The interface a frame received on interface i is written to; 0 is none:
\* main() only prints what it reads ("Monitoring CAN messages (no forwarding)").
ForwardToRing(i) == (i % NumIfaces) + 1
ForwardTo(i) == 0

\* if (FD_ISSET(sock, &read_fds)) read_and_print_frame(sock, name);
Service(i, results) ==
    /\ pc = ServicePc(i)
    /\ IF IsSet(i, readFds)
       THEN /\ \E r \in results : ReadAndPrintFrame(i, r)
            /\ pc' = AfterService(i, lastRead'.ret)
            /\ reads' = Append(reads, i)
            /\ readsAfterStop' =
                   IF running = 0 /\ readsAfterStop[i] < 2
                   THEN [readsAfterStop EXCEPT ![i] = @ + 1]
                   ELSE readsAfterStop
            /\ sent' = IF lastRead'.ret = 0 /\ ForwardTo(i) # 0
                       THEN sent \cup {<<i, ForwardTo(i)>>}
                       ELSE sent
       ELSE /\ UNCHANGED readVars
            /\ pc' = AfterService(i, 0)
            /\ UNCHANGED <<reads, readsAfterStop, sent>>
    /\ UNCHANGED <<running, exitCode, calls, lastCfg, socks, openFds, created,
                   closes, readFds, sel, waitsAfterStop, warned>>

\* Cleanup: close() on each of the three sockets, return 0.
ClosedByCleanup == Ifaces

Cleanup ==
    /\ pc = "cleanup"
    /\ closes' = [i \in Ifaces |-> IF i \in ClosedByCleanup THEN closes[i] + 1 ELSE closes[i]]
    /\ openFds' = openFds \ {socks[i] : i \in ClosedByCleanup}
    /\ exitCode' = 0
    /\ pc' = "exit"
    /\ UNCHANGED <<warned, reads, readsAfterStop, sent,
                   running, calls, lastCfg, socks, created, readFds, sel,
                   frame, lastRead, report, buttonStates, buttonChanged,
                   waitsAfterStop>>

\* signal_handler, run between two steps of main().
Signal ==
    /\ pc # "exit"
    /\ running' = 0
    /\ UNCHANGED <<warned, reads, readsAfterStop, sent,
                   pc, exitCode, calls, lastCfg, socks, openFds, created, closes,
                   readFds, sel, frame, lastRead, report, buttonStates,
                   buttonChanged, waitsAfterStop>>

(***************************************************************************)
(* Specifications.                                                         *)
(***************************************************************************)
Init ==
    /\ pc = "configure"
    /\ running = 1
    /\ exitCode = 0
    /\ calls = <<>>
    /\ lastCfg = NoCfg
    /\ socks = <<>>
    /\ openFds = {}
    /\ created = [i \in Ifaces |-> 0]
    /\ closes = [i \in Ifaces |-> 0]
    /\ readFds = {}
    /\ sel = [ret |-> 0, errno |-> ""]
    /\ frame = NoFrame
    /\ lastRead = NoRead
    /\ report = NoReport
    /\ buttonStates = AllFalse
    /\ buttonChanged = AllFalse
    /\ waitsAfterStop = 0
    /\ warned = FALSE
    /\ reads = <<>>
    /\ readsAfterStop = [i \in Ifaces |-> 0]
    /\ sent = {}

MainStep ==
    \/ Configure
    \/ SetupSocket
    \/ CheckSockets
    \/ LoopCheck
    \/ SelectReady
    \/ SelectTimeout
    \/ SelectInterrupted
    \/ SelectError
    \/ \E i \in Ifaces : Service(i, LifeResults)
    \/ Cleanup

Next == MainStep \/ Signal

Spec == Init /\ [][Next]_vars

\* main() is the only thread and every call it makes returns (select within
\* its 1 s timeout), so main keeps taking steps until it returns.
FairSpec == Spec /\ WF_vars(MainStep)

\* The decoders on the running bridge: read_and_print_frame applied on canfd1
\* to any sequence of read results, starting where the loop is first entered
\* with every startup step successful and all three sockets reported ready;
\* the loop control between two reads is left out.
InitDecode ==
    /\ pc = "service1"
    /\ running = 1
    /\ exitCode = 0
    /\ calls = [i \in Ifaces |-> [iface |-> i, ret |-> 0]]
    /\ lastCfg = restart_can_interface(NumIfaces, TRUE, TRUE, TRUE)
    /\ socks = [i \in Ifaces |-> FirstFd + i - 1]
    /\ openFds = {FirstFd + i - 1 : i \in Ifaces}
    /\ created = [i \in Ifaces |-> 1]
    /\ closes = [i \in Ifaces |-> 0]
    /\ readFds = Ifaces
    /\ sel = [ret |-> NumIfaces, errno |-> ""]
    /\ frame = NoFrame
    /\ lastRead = NoRead
    /\ report = NoReport
    /\ buttonStates = AllFalse
    /\ buttonChanged = AllFalse
    /\ waitsAfterStop = 0
    /\ warned = FALSE
    /\ reads = <<>>
    /\ readsAfterStop = [i \in Ifaces |-> 0]
    /\ sent = {}

ReadCall ==
    /\ \E r \in DecodeResults : ReadAndPrintFrame(1, r)
    /\ UNCHANGED <<warned, reads, readsAfterStop, sent,
                   pc, running, exitCode, calls, lastCfg, socks, openFds, created,
                   closes, readFds, sel, waitsAfterStop>>

NextDecode == ReadCall

SpecDecode == InitDecode /\ [][NextDecode]_vars

(***************************************************************************)
(* Vocabulary of the properties, written with arithmetic only.             *)
(***************************************************************************)
\* The identifier with its top three (flag) bits dropped.
Masked(f) == Id32(f.can_id.hi % 8192, f.can_id.lo)
\* The latest read_and_print_frame call received a complete frame.
FrameReceived == lastRead.sock # 0 /\ lastRead.nbytes = SizeofCanFrame
KeypadFrameRead ==
    FrameReceived /\ Masked(frame) = CAN_ID_KEYPAD /\ frame.can_dlc >= 2
\* Bytes 0-1 of the payload, little-endian, and its 2-bit group i.
Payload16(f) == f.data[2] * 256 + f.data[1]
Group(f, i) == (Payload16(f) \div (4 ^ i)) % 4
ServicePcs == {"service1", "service2", "service3"}
StartupFailed ==
    \/ \E k \in 1..Len(calls) : calls[k].ret < 0
    \/ \E k \in 1..Len(socks) : socks[k] < 0

(***************************************************************************)
(* C1: after a keypad frame (masked identifier 0x18FF0280, data length     *)
(* >= 2) has been decoded, button i is stored as pressed exactly when      *)
(* 2-bit group i of the little-endian 16-bit payload is 0b01; groups 0b00, *)
(* 0b10 and 0b11 are stored as not pressed.                                *)
(***************************************************************************)
C1_KeypadStates ==
    KeypadFrameRead => \A i \in Buttons : buttonStates[i] = (Group(frame, i) = 1)

\* A decoded payload that carries all four group values.
C1_Witness ==
    /\ KeypadFrameRead
    /\ \A g \in 0..3 : \E i \in Buttons : Group(frame, i) = g
    /\ \E i \in Buttons : buttonStates[i]
    /\ \E i \in Buttons : ~buttonStates[i]

(***************************************************************************)
(* C2: a keypad decode sets button i's change flag exactly when its new    *)
(* state differs from the state the preceding keypad decode stored (all    *)
(* false before the first); a read that is no keypad decode leaves the     *)
(* stored states alone; decoding the same payload twice in a row leaves    *)
(* all eight change flags false.                                           *)
(***************************************************************************)
C2_ChangeFlags ==
    [][ /\ KeypadFrameRead' =>
             \A i \in Buttons : buttonChanged'[i] = (buttonStates'[i] # buttonStates[i])
        /\ ~KeypadFrameRead' => buttonStates' = buttonStates
        /\ (KeypadFrameRead /\ KeypadFrameRead' /\ Payload16(frame') = Payload16(frame))
             => buttonChanged' = AllFalse ]_vars

\* The second of two decodes of one payload: buttons held, no flag set.
C2_Witness ==
    /\ KeypadFrameRead
    /\ \E i \in Buttons : buttonStates[i]
    /\ buttonChanged = AllFalse

(***************************************************************************)
(* C3: once the shutdown flag is cleared while main() is in the loop, the  *)
(* loop exits after at most one more readiness wait and the process ends   *)
(* with each of the three sockets closed exactly once.                     *)
(***************************************************************************)
C3_Shutdown ==
    /\ (running = 0 /\ pc \in RunningPcs) ~>
         (pc = "exit" /\ \A i \in Ifaces :
                            created[i] = 1 /\ closes[i] = 1 /\ socks[i] \notin openFds)
    /\ [](waitsAfterStop <= 1)

\* A shutdown whose signal arrived just before a readiness wait began.
C3_Witness ==
    /\ pc = "exit"
    /\ running = 0
    /\ waitsAfterStop = 1
    /\ \A i \in Ifaces : closes[i] = 1 /\ socks[i] \notin openFds

(***************************************************************************)
(* C4: main() is in the select loop only when all three configure calls    *)
(* returned success and all three sockets are valid and open; after any    *)
(* configure or open failure the loop is never entered, no frame is read   *)
(* and the exit code is nonzero.                                           *)
(***************************************************************************)
C4_RunningNeedsAll ==
    /\ pc \in RunningPcs =>
         /\ Len(calls) = NumIfaces /\ \A k \in Ifaces : calls[k].ret = 0
         /\ Len(socks) = NumIfaces /\ \A k \in Ifaces : socks[k] >= 0 /\ socks[k] \in openFds
    /\ StartupFailed =>
         /\ pc \notin RunningPcs \cup {"cleanup"}
         /\ lastRead = NoRead
         /\ pc = "exit" => exitCode # 0

\* canfd1 opened, canfd3 failed to open, and the process has exited.
C4_Witness ==
    /\ pc = "exit"
    /\ Len(socks) = NumIfaces
    /\ socks[1] >= 0
    /\ socks[3] < 0
    /\ exitCode = 1

(***************************************************************************)
(* C5 as stated: main() leaves the loop only when the shutdown flag has    *)
(* been cleared by a signal.                                               *)
(***************************************************************************)
C5_OnlySignalEndsLoop ==
    [][(pc \in RunningPcs /\ pc' \notin RunningPcs) => running = 0]_vars

(***************************************************************************)
(* C5 amended: main() leaves the loop only at the loop test with the       *)
(* shutdown flag cleared, or at select() failing with an errno other than  *)
(* EINTR; no read error, incomplete frame or interrupted wait ends it.     *)
(***************************************************************************)
C5_LoopExits ==
    [][(pc \in RunningPcs /\ pc' \notin RunningPcs) =>
          /\ pc' = "cleanup"
          /\ \/ pc = "loop" /\ running = 0
             \/ pc = "select" /\ sel'.ret < 0 /\ sel'.errno # "EINTR"]_vars

\* A read error was reported and main() is about to wait again.
C5_Witness ==
    /\ pc = "select"
    /\ running = 1
    /\ lastRead.ret = -1
    /\ lastRead.msg = "Error reading from CAN"

(***************************************************************************)
(* C6: the process exits with code 1 exactly when a configure or open step *)
(* failed, and with code 0 only after the shutdown flag was cleared by a   *)
(* signal.                                                                 *)
(***************************************************************************)
C6_ExitCodes ==
    pc = "exit" =>
        /\ exitCode = 1 <=> StartupFailed
        /\ exitCode = 0 => running = 0

(***************************************************************************)
(* C7: a TSC1 report is produced only for a frame with masked identifier   *)
(* 0x0C000003 and data length >= 5.                                        *)
(***************************************************************************)
C7_Tsc1NeedsFiveBytes ==
    report.kind = "tsc1" => (Masked(frame) = CAN_ID_TSC1 /\ frame.can_dlc >= 5)

(***************************************************************************)
(* C8: a TSC1 report carries control mode b0, speed b2*256 + b1 (0..65535, *)
(* in units of 0.125 RPM), torque b3 - 125 (-125..130) and priority        *)
(* b4 mod 4 (0..3) of the frame just read, whatever was read before; the   *)
(* bytes 0x10 0x40 0x01 0x7D 0x02 give 320 (40.0 RPM), 0, 2 and 0x10.      *)
(***************************************************************************)
C8_Tsc1Fields ==
    report.kind = "tsc1" =>
        /\ report.ctrl = frame.data[1]
        /\ report.speed = frame.data[3] * 256 + frame.data[2]
        /\ report.speed \in 0..65535
        /\ report.torque = frame.data[4] - 125
        /\ report.torque \in -125..130
        /\ report.priority = frame.data[5] % 4
        /\ report.priority \in 0..3
        /\ SubSeq(frame.data, 1, 5) = <<16, 64, 1, 125, 2>> =>
             /\ report.speed = 320
             /\ report.torque = 0
             /\ report.priority = 2
             /\ report.ctrl = 16

\* The largest payload: no truncation, no sign extension.
C8_Witness ==
    /\ report.kind = "tsc1"
    /\ SubSeq(frame.data, 1, 5) = <<255, 255, 255, 255, 255>>
    /\ report.speed = 65535
    /\ report.torque = 130
    /\ report.priority = 3

(***************************************************************************)
(* C9: a received frame whose masked identifier is neither 0x18FF0280 nor  *)
(* 0x0C000003, or is the keypad's with data length below 2, yields no      *)
(* decoded report and no error: read_and_print_frame returns 0 and main()  *)
(* stays in the loop.                                                      *)
(***************************************************************************)
Unmatched(f) ==
    \/ Masked(f) \notin {CAN_ID_KEYPAD, CAN_ID_TSC1}
    \/ Masked(f) = CAN_ID_KEYPAD /\ f.can_dlc < 2

C9_UnmatchedFrame ==
    /\ []((FrameReceived /\ Unmatched(frame)) =>
            (report.kind = "none" /\ lastRead.ret = 0 /\ lastRead.msg = ""))
    /\ [][(pc \in ServicePcs /\ pc' # pc /\ FrameReceived' /\ Unmatched(frame'))
            => pc' \in RunningPcs]_vars

\* A one-byte keypad frame was read on canfd1 and canfd2 is serviced next.
C9_Witness ==
    /\ pc = "service2"
    /\ lastRead.sock = 1
    /\ FrameReceived
    /\ Masked(frame) = CAN_ID_KEYPAD
    /\ frame.can_dlc = 1
    /\ report.kind = "none"

(***************************************************************************)
(* C11: on every path to process exit every socket that socket() created   *)
(* has been closed exactly once: none is still open when main() returns    *)
(* and none is closed twice.                                               *)
(***************************************************************************)
C11_SocketsClosedOnce ==
    /\ \A i \in Ifaces : closes[i] <= created[i]
    /\ pc = "exit" =>
         /\ openFds = {}
         /\ \A i \in Ifaces : closes[i] = created[i]

(***************************************************************************)
(* C12: in every Running state each of canfd1..canfd3 has had its bitrate  *)
(* command succeed, has been brought up and has a bound socket; no         *)
(* interface whose bitrate step failed is polled.                          *)
(***************************************************************************)
C12_PolledFullyConfigured ==
    pc \in RunningPcs =>
        /\ ~warned
        /\ Len(calls) = NumIfaces
        /\ \A k \in Ifaces : calls[k].iface = k /\ calls[k].ret = 0
        /\ lastCfg.bitrate /\ lastCfg.up /\ lastCfg.rate = Bitrate(NumIfaces)
        /\ Len(socks) = NumIfaces
        /\ \A k \in Ifaces : socks[k] \in openFds

(***************************************************************************)
(* C13: restart_can_interface hands the down, bitrate and up commands to   *)
(* system() in that order whatever the earlier ones returned, and returns  *)
(* -1 exactly when the up command failed; a failed down or bitrate command *)
(* alone leaves the result 0.                                              *)
(***************************************************************************)
C13_RestartResult ==
    lastCfg.iface # 0 =>
        /\ lastCfg.cmds = <<"down", "bitrate", "up">>
        /\ lastCfg.ret \in {0, -1}
        /\ lastCfg.ret = -1 <=> ~lastCfg.up
        /\ lastCfg.rate = Bitrate(lastCfg.iface)
        /\ calls[Len(calls)] = [iface |-> lastCfg.iface, ret |-> lastCfg.ret]

\* The down and bitrate commands failed, up succeeded, and the call returned 0.
C13_Witness ==
    /\ lastCfg.iface # 0
    /\ ~lastCfg.down
    /\ ~lastCfg.bitrate
    /\ lastCfg.up
    /\ lastCfg.ret = 0

(***************************************************************************)
(* C14: within one return of select() a socket is read only if select()    *)
(* reported it ready, and at most once, so one iteration reads at most     *)
(* three frames; after a timeout or an interrupted select() no read is     *)
(* made.  A step that touches the received frame, its report or the button *)
(* arrays is one of those reads.                                           *)
(***************************************************************************)
C14_ReadsOnlyReady ==
    /\ [](/\ \A k \in 1..Len(reads) : reads[k] \in readFds
          /\ \A j, k \in 1..Len(reads) : j < k => reads[j] < reads[k]
          /\ Len(reads) <= NumIfaces
          /\ sel.ret <= 0 => reads = <<>>)
    /\ [][/\ readVars' # readVars => reads' = Append(reads, lastRead'.sock)
          /\ reads' # reads /\ reads' # <<>> =>
                /\ pc \in ServicePcs
                /\ sel.ret > 0
                /\ reads' = Append(reads, lastRead'.sock)]_vars

\* canfd1 and canfd3 were ready and have been read, canfd2 was skipped.
C14_Witness ==
    /\ pc = "loop"
    /\ sel.ret = 2
    /\ readFds = {1, 3}
    /\ reads = <<1, 3>>

\* A step of main() that calls read() on a socket, and the sockets read so far.
ReadStep == reads' # reads /\ reads' # <<>>
SocketsRead == {reads[k] : k \in 1..Len(reads)}
InterfaceAt(p) == CHOOSE i \in Ifaces : ServicePc(i) = p

(***************************************************************************)
(* C15: a read that fails (read() returns -1, would-block or an I/O error, *)
(* or fewer bytes than a frame) is discarded: read_and_print_frame returns *)
(* -1, no frame is kept and no decoder reports, the button arrays are as   *)
(* before, nothing is written, and main() goes on to the next socket: every*)
(* socket that select() reported ready in this wakeup is read.             *)
(***************************************************************************)
C15_FailedReadDiscarded ==
    /\ [][ReadStep /\ lastRead'.nbytes < SizeofCanFrame =>
             /\ lastRead'.ret = -1
             /\ frame' = NoFrame
             /\ report' = NoReport
             /\ buttonStates' = buttonStates
             /\ buttonChanged' = buttonChanged
             /\ sent' = sent
             /\ pc' = IF pc = "service3" THEN "loop"
                      ELSE ServicePc(InterfaceAt(pc) + 1)]_vars
    /\ [](sel.ret > 0 =>
             \A j \in readFds :
                 \/ pc = "loop"
                 \/ pc \in ServicePcs /\ j < InterfaceAt(pc)
                 => j \in SocketsRead)

\* The read on canfd1 failed with an I/O error and canfd2, also ready, is next.
C15_Witness ==
    /\ pc = "service2"
    /\ lastRead.sock = 1
    /\ lastRead.ret = -1
    /\ lastRead.errno = "EIO"
    /\ 2 \in readFds
    /\ reads = <<1>>

(***************************************************************************)
(* C16: buttonStates and buttonChanged are all false until the first read, *)
(* and a step changes any of the sixteen booleans only by reading a keypad *)
(* frame of at least two bytes: a TSC1 frame, a frame with another         *)
(* identifier, a keypad frame with can_dlc < 2 and a failed read leave     *)
(* them as they were.                                                      *)
(***************************************************************************)
C16_ButtonBank ==
    /\ [](lastRead = NoRead => buttonStates = AllFalse /\ buttonChanged = AllFalse)
    /\ [][buttonStates' # buttonStates \/ buttonChanged' # buttonChanged =>
             /\ ReadStep
             /\ lastRead'.ret = 0
             /\ KeypadFrameRead'
             /\ report'.kind = "keypad"]_vars
    /\ [][ReadStep /\ ~KeypadFrameRead' =>
             buttonStates' = buttonStates /\ buttonChanged' = buttonChanged]_vars

\* Buttons are held and flagged, and the TSC1 frame just read left them so.
C16_Witness ==
    /\ buttonStates # AllFalse
    /\ buttonChanged # AllFalse
    /\ lastRead.ret = 0
    /\ report.kind = "tsc1"

\* The buttons the latest keypad report lists.
Listed == {report.pressed[k][1] : k \in 1..Len(report.pressed)}

(***************************************************************************)
(* C17: the report of a keypad frame lists exactly the buttons whose state *)
(* is pressed, in index order 0..7, each once, and stars a listed button   *)
(* exactly when its change flag is set; a button that went from pressed to *)
(* not pressed has its change flag set and is not in the report.           *)
(***************************************************************************)
C17_KeypadReport ==
    report.kind = "keypad" =>
        /\ Listed = {b \in Buttons : buttonStates[b]}
        /\ \A j, k \in 1..Len(report.pressed) :
               j < k => report.pressed[j][1] < report.pressed[k][1]
        /\ \A k \in 1..Len(report.pressed) :
               report.pressed[k][2] = buttonChanged[report.pressed[k][1]]
        /\ \A b \in Buttons : buttonChanged[b] /\ ~buttonStates[b] => b \notin Listed

\* One report with a released button left out, a newly pressed button
\* starred and a button still held listed without a star.
C17_Witness ==
    /\ report.kind = "keypad"
    /\ \E b \in Buttons : buttonChanged[b] /\ ~buttonStates[b] /\ b \notin Listed
    /\ \E k \in 1..Len(report.pressed) : report.pressed[k][2]
    /\ \E k \in 1..Len(report.pressed) : ~report.pressed[k][2]

(***************************************************************************)
(* C18: main() configures canfd1, canfd2, canfd3 in that order; after the  *)
(* first restart_can_interface that fails no later interface is            *)
(* configured; and no socket is created before all three calls have        *)
(* returned 0.                                                             *)
(***************************************************************************)
C18_StartupOrder ==
    /\ Len(calls) <= NumIfaces
    /\ lastCfg.iface = Len(calls)
    /\ \A k \in 1..Len(calls) : calls[k].iface = k
    /\ \A k \in 1..(Len(calls) - 1) : calls[k].ret = 0
    /\ (socks # <<>> \/ openFds # {} \/ \E i \in Ifaces : created[i] > 0) =>
           /\ Len(calls) = NumIfaces
           /\ \A k \in Ifaces : calls[k].ret = 0

\* canfd1 failed to come up: main() has exited, canfd2 and canfd3 were never
\* configured and no socket was created.
C18_Witness ==
    /\ pc = "exit"
    /\ Len(calls) = 1
    /\ calls[1] = [iface |-> 1, ret |-> -1]
    /\ socks = <<>>
    /\ \A i \in Ifaces : created[i] = 0

StartupPcs == {"configure", "open", "check"}

(***************************************************************************)
(* C19: main() looks at the running flag only in the loop test.  Once the  *)
(* handler has cleared it, at most one more select() is begun and at most  *)
(* one more read is made per interface before the loop ends: the loop test *)
(* with the flag cleared leaves the loop, and an iteration under way when  *)
(* the flag is cleared still reads every ready socket to the end.  When    *)
(* the flag is cleared during startup, before the first loop test, no      *)
(* select() and no read is ever made.                                      *)
(***************************************************************************)
C19_StopSeenAtLoopTest ==
    /\ [](waitsAfterStop <= 1 /\ \A i \in Ifaces : readsAfterStop[i] <= 1)
    /\ [][running = 0 /\ pc = "loop" /\ pc' # pc => pc' = "cleanup"]_vars
    /\ [][running = 0 /\ pc \in ServicePcs /\ pc' # pc =>
             /\ pc' = IF pc = "service3" THEN "loop"
                      ELSE ServicePc(InterfaceAt(pc) + 1)
             /\ InterfaceAt(pc) \in readFds =>
                    ReadStep /\ lastRead'.sock = InterfaceAt(pc)]_vars
    /\ [](running = 0 /\ pc \in StartupPcs =>
             [](/\ pc \notin {"select"} \cup ServicePcs
                /\ lastRead = NoRead
                /\ reads = <<>>
                /\ waitsAfterStop = 0
                /\ \A i \in Ifaces : readsAfterStop[i] = 0))
    /\ [](running = 0 /\ pc = "loop" /\ lastRead = NoRead =>
             [](/\ pc \notin {"select"} \cup ServicePcs
                /\ lastRead = NoRead
                /\ \A i \in Ifaces : readsAfterStop[i] = 0))

\* The flag was cleared between the loop test and select(): one more wait
\* was begun, all three sockets were ready and read once, and main() left
\* the loop at the next test.
C19_Witness ==
    /\ pc = "exit"
    /\ running = 0
    /\ waitsAfterStop = 1
    /\ \A i \in Ifaces : readsAfterStop[i] = 1

=============================================================================
